---- MODULE Spec2Model ----
(***************************************************************************)
(* Model of the polarize front-end client:                                 *)
(*   - the API client (axios instance with its request interceptor, and    *)
(*     the fetch-based streaming chat reader chatStream),                  *)
(*   - the auth session holder AuthProvider (start-up effect, login,       *)
(*     register, logout),                                                  *)
(*   - the chat page handler CoachPage.sendMessage,                        *)
(*   - the query cache and the mutations of the pages (react-query),       *)
(*   - the zone previews of the settings page (ThresholdsTab, ZonesTab),   *)
(*   - the training-status classifier of the dashboard (formStatus),       *)
(*   - the upload page handler UploadPage.handleFile,                      *)
(*   - the FIT download link getWorkoutFitUrl,                             *)
(*   - the coach settings tab CoachTab,                                    *)
(*   - the plan modifier PlanModifier and its four mutations,              *)
(*   - the activity page handler ActivityDetailPage.handleDelete.          *)
(*                                                                         *)
(* Execution is a browser event loop: one action is one task (an event     *)
(* handler run, or the continuation that runs when a request settles)      *)
(* together with the microtasks it triggers.                               *)
(***************************************************************************)
EXTENDS Integers, Sequences, FiniteSets, TLC

(***************************************************************************)
(* Bounds                                                                  *)
(***************************************************************************)
\* number of login/register calls made during one behaviour
MaxOps == 2

\* JavaScript null, as localStorage.getItem returns it for a missing key
None == "null"

\* access tokens the server may hand out, and users it may report
Tokens == {"t1", "t2"}
Users == {"u1", "u2"}

Ops == 1..MaxOps

\* number of lines in a streamed response body (stream reader on its own)
MaxLines == 2

\* number of lines in a streamed response body on the chat page
MaxChatLines == 2

\* number of messages sent from the chat page during one behaviour
MaxSends == 1

\* number of clicks on the Delete button of one activity page
MaxClicks == 3

(***************************************************************************)
(* State                                                                   *)
(***************************************************************************)
VARIABLES
    token,      \* localStorage item 'token' (None when the key is absent)
    user,       \* AuthProvider state `user`
    loading,    \* AuthProvider state `loading`
    nav,        \* current route of the router
    bootPc,     \* position of the AuthProvider start-up effect
    ops,        \* the login/register calls: kind, position, token received
    sent,       \* every HTTP request issued so far
    messages,   \* CoachPage state `messages`
    input,      \* CoachPage state `input`
    isLoading,  \* CoachPage state `isLoading`
    chatPc,     \* position of the current chatStream call
    status,     \* HTTP status of the response chatStream received (0: none)
    branch,     \* how the last sendMessage ended: "success" or "failure"
    body,       \* bytes of the response body being streamed
    pos,        \* number of body bytes the reader has delivered
    calls,      \* texts passed to onChunk by the current chatStream call
    decoded,    \* concatenation of the values of `chunk` (decoder output)
    sends,      \* number of sendMessage runs that passed the guard
    apiPc,      \* position of a call to an axios-based API function
    apiResult,  \* how the last such call settled
    cache,      \* react-query cache: per query key, its data and stale flag
    lastRead,   \* the data the last useQuery read handed to its component
    mutation,   \* the last mutation started, and the status of its request
    thresholds, \* ThresholdsTab state `thresholds` (the three zone inputs)
    userData,   \* ZonesTab: thresholds of the `user` the ['user'] query holds
    snapshot,   \* DashboardPage: `form` of the snapshot (None: no data yet)
    uploadResult, \* UploadPage state `uploadResult`
    uploadLog,  \* files passed to uploadMutation.mutate, in call order
    inflight,   \* indices into uploadLog of the uploads not yet settled
    fitUrl,     \* PlanModifier: the last URL getWorkoutFitUrl built
    settings,   \* CoachTab state `settings` (the local form)
    savedSettings, \* CoachTab: data of the ['coachSettings'] query
    edited,     \* CoachTab: the user has edited a field since the mount
    coachMutation, \* CoachTab: status and payload of the save mutation
    suggestions, \* PlanModifier state `suggestions`
    planMutation, \* PlanModifier: the mutation last started, and its status
    dismissed,  \* PlanModifier: Dismiss/Cancel clicked, no request since
    isDeleting, \* ActivityDetailPage state `isDeleting`
    shownDeleting, \* ActivityDetailPage: isDeleting as of the last render
    answers,    \* ActivityDetailPage: what confirm() returned, per click
    pendingDeletes, \* number of deleteActivity requests not yet settled
    deleteStatus, \* how the last deleteActivity request settled
    redirect    \* position of the setTimeout that leaves the page

authVars == <<token, user, loading, nav, bootPc, ops>>

streamVars == <<chatPc, body, pos, calls, decoded>>

pageVars == <<messages, input, isLoading, status, branch, sends>>

apiVars == <<apiPc, apiResult>>

\* the state of the chat page and of the API calls made from pages
chatSide == <<messages, input, isLoading, chatPc, status, branch, body, pos,
              calls, decoded, sends, apiPc, apiResult>>

\* the state of the session holder other than the stored token
authSide == <<user, loading, nav, bootPc, ops>>

cacheVars == <<cache, lastRead, mutation>>

settingsVars == <<thresholds, userData>>

uploadVars == <<uploadResult, uploadLog, inflight>>

\* the state of the plan modifier, the coach settings tab and the activity
\* detail page
coachVars == <<settings, savedSettings, edited, coachMutation>>

planVars == <<suggestions, planMutation, dismissed>>

detailVars == <<isDeleting, shownDeleting, answers, pendingDeletes,
                deleteStatus, redirect>>

moreVars == <<fitUrl, coachVars, planVars, detailVars>>

\* the state of the settings tabs, the dashboard and the upload page
pagePanels == <<cache, lastRead, mutation, thresholds, userData, snapshot,
                uploadResult, uploadLog, inflight>>


\* the state of the pages other than the chat page
panelVars == <<cache, lastRead, mutation, thresholds, userData, snapshot,
               uploadResult, uploadLog, inflight, moreVars>>

vars == <<token, user, loading, nav, bootPc, ops, sent, messages, input,
          isLoading, chatPc, status, branch, body, pos, calls, decoded,
          sends, apiPc, apiResult, cache, lastRead, mutation, thresholds,
          userData, snapshot, uploadResult, uploadLog, inflight, moreVars>>

(***************************************************************************)
(* API client: request construction                                        *)
(***************************************************************************)
NoHeader == <<>>

\* the template literal `Bearer ${token}`
Bearer(tok) == <<"Bearer", tok>>

\* api.interceptors.request.use: reads the token and attaches it if truthy
Interceptor_noAttach(tok, config) == config

Interceptor(tok, config) ==
    IF tok # None THEN [config EXCEPT !.auth = Bearer(tok)] ELSE config

\* a request made through the axios instance `api`; tok is the localStorage
\* value at the time the interceptor runs; `stored` records that value
AxiosRequest(by, n, url, tok) ==
    Interceptor(tok, [by |-> by, n |-> n, url |-> url, auth |-> NoHeader,
                      stored |-> tok])

ExchangeUrl(kind) == IF kind = "login" THEN "/auth/login" ELSE "/auth/register"

(***************************************************************************)
(* Auth session holder                                                     *)
(***************************************************************************)
IdleOp == [kind |-> "none", pc |-> "idle", access |-> None, trace |-> <<>>]

InitAuth ==
    /\ token \in {None} \cup Tokens
    /\ user = None
    /\ loading = TRUE
    /\ nav = "/"
    /\ bootPc = "start"
    /\ ops = [i \in Ops |-> IdleOp]
    /\ sent = {}

\* useEffect(() => {...}, []): runs once after mount
BootStart_alwaysFetch ==
    /\ bootPc = "start"
    /\ sent' = sent \cup {AxiosRequest(<<"boot", 0>>, 0, "/auth/me", token)}
    /\ bootPc' = "fetching"
    /\ UNCHANGED <<token, user, loading, nav, ops>>
    /\ UNCHANGED chatSide
    /\ UNCHANGED panelVars

BootStart ==
    /\ bootPc = "start"
    /\ IF token # None
         THEN /\ sent' = sent \cup {AxiosRequest(<<"boot", 0>>, 0, "/auth/me", token)}
              /\ bootPc' = "fetching"
              /\ UNCHANGED loading
         ELSE /\ loading' = FALSE
              /\ bootPc' = "noToken"
              /\ UNCHANGED sent
    /\ UNCHANGED <<token, user, nav, ops>>
    /\ UNCHANGED chatSide
    /\ UNCHANGED panelVars

\* getMe() resolved: .then(setUser), then .finally(() => setLoading(false))
BootMeOk(u) ==
    /\ bootPc = "fetching"
    /\ user' = u
    /\ loading' = FALSE
    /\ bootPc' = "ok"
    /\ UNCHANGED <<token, nav, ops, sent>>
    /\ UNCHANGED chatSide
    /\ UNCHANGED panelVars

\* getMe() rejected: .catch removes the token, then .finally
BootMeFail_keepToken ==
    /\ bootPc = "fetching"
    /\ loading' = FALSE
    /\ bootPc' = "failed"
    /\ UNCHANGED <<token, user, nav, ops, sent>>
    /\ UNCHANGED chatSide
    /\ UNCHANGED panelVars

BootMeFail ==
    /\ bootPc = "fetching"
    /\ token' = None
    /\ loading' = FALSE
    /\ bootPc' = "failed"
    /\ UNCHANGED <<user, nav, ops, sent>>
    /\ UNCHANGED chatSide
    /\ UNCHANGED panelVars

\* login(...) / register(...) called: the credential exchange is issued.
\* Event handlers run only after the start-up effect has run.
AuthStart_setsLoading(i, kind) ==
    /\ bootPc # "start"
    /\ ops[i].pc = "idle"
    /\ \A j \in Ops : j < i => ops[j].pc # "idle"
    /\ sent' = sent \cup {AxiosRequest(<<"op", i>>, 0, ExchangeUrl(kind), token)}
    /\ ops' = [ops EXCEPT ![i] = [kind |-> kind, pc |-> "exchange",
                                  access |-> None, trace |-> <<"exchange">>]]
    /\ loading' = TRUE
    /\ UNCHANGED <<token, user, nav, bootPc>>
    /\ UNCHANGED chatSide
    /\ UNCHANGED panelVars

AuthStart(i, kind) ==
    /\ bootPc # "start"
    /\ ops[i].pc = "idle"
    /\ \A j \in Ops : j < i => ops[j].pc # "idle"
    /\ sent' = sent \cup {AxiosRequest(<<"op", i>>, 0, ExchangeUrl(kind), token)}
    /\ ops' = [ops EXCEPT ![i] = [kind |-> kind, pc |-> "exchange",
                                  access |-> None, trace |-> <<"exchange">>]]
    /\ UNCHANGED <<token, user, loading, nav, bootPc>>
    /\ UNCHANGED chatSide
    /\ UNCHANGED panelVars

\* the exchange resolved with { access_token }: persist it, then call getMe()
ExchangeOk_meBeforePersist(i, t) ==
    /\ ops[i].pc = "exchange"
    /\ sent' = sent \cup {AxiosRequest(<<"op", i>>, 1, "/auth/me", token)}
    /\ token' = t
    /\ ops' = [ops EXCEPT ![i].pc = "me", ![i].access = t,
                          ![i].trace = @ \o <<"me", "persist">>]
    /\ UNCHANGED <<user, loading, nav, bootPc>>
    /\ UNCHANGED chatSide
    /\ UNCHANGED panelVars

ExchangeOk(i, t) ==
    /\ ops[i].pc = "exchange"
    /\ token' = t
    /\ sent' = sent \cup {AxiosRequest(<<"op", i>>, 1, "/auth/me", token')}
    /\ ops' = [ops EXCEPT ![i].pc = "me", ![i].access = t,
                          ![i].trace = @ \o <<"persist", "me">>]
    /\ UNCHANGED <<user, loading, nav, bootPc>>
    /\ UNCHANGED chatSide
    /\ UNCHANGED panelVars

\* the exchange rejected: the await throws, login/register rejects
ExchangeFail(i) ==
    /\ ops[i].pc = "exchange"
    /\ ops' = [ops EXCEPT ![i].pc = "failed"]
    /\ UNCHANGED <<token, user, loading, nav, bootPc, sent>>
    /\ UNCHANGED chatSide
    /\ UNCHANGED panelVars

\* getMe() resolved: setUser(userData); router.push('/dashboard')
MeOk(i, u) ==
    /\ ops[i].pc = "me"
    /\ user' = u
    /\ nav' = "/dashboard"
    /\ ops' = [ops EXCEPT ![i].pc = "done",
                          ![i].trace = @ \o <<"setUser", "navigate">>]
    /\ UNCHANGED <<token, loading, bootPc, sent>>
    /\ UNCHANGED chatSide
    /\ UNCHANGED panelVars

\* getMe() rejected: the await throws, login/register rejects
MeFail(i) ==
    /\ ops[i].pc = "me"
    /\ ops' = [ops EXCEPT ![i].pc = "failed"]
    /\ UNCHANGED <<token, user, loading, nav, bootPc, sent>>
    /\ UNCHANGED chatSide
    /\ UNCHANGED panelVars

\* logout(): synchronous
Logout ==
    /\ bootPc # "start"
    /\ token' = None
    /\ user' = None
    /\ nav' = "/login"
    /\ UNCHANGED <<loading, bootPc, ops, sent>>
    /\ UNCHANGED chatSide
    /\ UNCHANGED panelVars

(***************************************************************************)
(* Streaming chat reader: the pure parts of chatStream                     *)
(*                                                                         *)
(* A byte is a one-character string for an ASCII byte, or "C3" / "A9" for  *)
(* the two bytes of the UTF-8 encoding of U+00E9.  A decoded character is  *)
(* a one-character string, or "U+00E9", or "U+FFFD" (replacement).         *)
(***************************************************************************)
LeadByte == "C3"
ContByte == "A9"
EAcute == "U+00E9"
Replacement == "U+FFFD"

RECURSIVE Concat(_)
Concat(ss) == IF ss = <<>> THEN <<>> ELSE Head(ss) \o Concat(Tail(ss))

\* decoder.decode(value), called without { stream: true }: the decoder is
\* flushed at the end of every call, so a sequence that is incomplete at the
\* end of the chunk, and a continuation byte without its lead byte, each
\* decode to U+FFFD
RECURSIVE Decode(_)
Decode(value) ==
    IF value = <<>> THEN <<>>
    ELSE IF Head(value) = LeadByte
      THEN IF Len(value) >= 2 /\ value[2] = ContByte
             THEN <<EAcute>> \o Decode(SubSeq(value, 3, Len(value)))
             ELSE <<Replacement>> \o Decode(Tail(value))
    ELSE IF Head(value) = ContByte
      THEN <<Replacement>> \o Decode(Tail(value))
    ELSE <<Head(value)>> \o Decode(Tail(value))

\* chunk.split('\n')
RECURSIVE Split(_)
Split(s) ==
    IF \A i \in 1..Len(s) : s[i] # "\n" THEN <<s>>
    ELSE LET i == CHOOSE j \in 1..Len(s) :
                     s[j] = "\n" /\ \A m \in 1..(j - 1) : s[m] # "\n"
         IN <<SubSeq(s, 1, i - 1)>> \o Split(SubSeq(s, i + 1, Len(s)))

\* line.startsWith(p)
StartsWith(line, p) == Len(line) >= Len(p) /\ SubSeq(line, 1, Len(p)) = p

\* line.slice(n)
Slice(line, n) == SubSeq(line, n + 1, Len(line))

DataPrefix == <<"d", "a", "t", "a", ":", " ">>
DoneLine == DataPrefix \o <<"[", "D", "O", "N", "E", "]">>

TextOpen == <<"{", "\"", "t", "e", "x", "t", "\"", ":", "\"">>
TextClose == <<"\"", "}">>

\* JSON.parse(s) for the texts that occur here: the object {"text":"..."}
\* with a string free of quotes and escapes, and the empty object {}; every
\* other text over the alphabet of the model that the reader can hand to
\* JSON.parse (a strict prefix of these, "[DONE", "{bad", ...) is not JSON
\* and makes JSON.parse throw
JSONParse(s) ==
    IF s = <<"{", "}">>
      THEN [ok |-> TRUE, hasText |-> FALSE, text |-> <<>>]
    ELSE IF /\ Len(s) >= Len(TextOpen) + Len(TextClose)
            /\ SubSeq(s, 1, Len(TextOpen)) = TextOpen
            /\ SubSeq(s, Len(s) - Len(TextClose) + 1, Len(s)) = TextClose
            /\ \A i \in (Len(TextOpen) + 1)..(Len(s) - Len(TextClose)) :
                   s[i] \notin {"\"", "\\", "\n"}
      THEN [ok |-> TRUE, hasText |-> TRUE,
            text |-> SubSeq(s, Len(TextOpen) + 1, Len(s) - Len(TextClose))]
    ELSE [ok |-> FALSE, hasText |-> FALSE, text |-> <<>>]

\* the body of the for loop: the texts onChunk is called with for one line
\* (`if (data.text)` holds for a non-empty string; a parse error is caught)
LineCalls_sentinelAsText(line) ==
    IF StartsWith(line, DataPrefix)
      THEN LET data == JSONParse(Slice(line, 6))
           IN IF data.ok /\ data.hasText /\ data.text # <<>>
                THEN <<data.text>>
              ELSE IF line = DoneLine THEN <<Slice(line, 6)>>
              ELSE <<>>
      ELSE <<>>

LineCalls(line) ==
    IF StartsWith(line, DataPrefix) /\ line # DoneLine
      THEN LET data == JSONParse(Slice(line, 6))
           IN IF data.ok /\ data.hasText /\ data.text # <<>>
                THEN <<data.text>> ELSE <<>>
      ELSE <<>>

RECURSIVE LinesCalls(_)
LinesCalls(lines) ==
    IF lines = <<>> THEN <<>>
    ELSE LineCalls(Head(lines)) \o LinesCalls(Tail(lines))

\* the onChunk invocations one iteration of the while loop makes for the
\* decoded text `chunk`
ChunkCalls_abortOnError(chunk) ==
    LET lines == Split(chunk)
        bad == {i \in 1..Len(lines) :
                  /\ StartsWith(lines[i], DataPrefix)
                  /\ lines[i] # DoneLine
                  /\ ~JSONParse(Slice(lines[i], 6)).ok}
    IN IF bad = {} THEN LinesCalls(lines)
       ELSE LinesCalls(SubSeq(lines, 1,
                (CHOOSE i \in bad : \A j \in bad : i <= j) - 1))

ChunkCalls(chunk) == LinesCalls(Split(chunk))

(***************************************************************************)
(* Response bodies                                                         *)
(***************************************************************************)
TextLine(str) == DataPrefix \o TextOpen \o str \o TextClose

\* lines a streamed body is made of: two text frames (one with a two-byte
\* character), the sentinel, a frame with an empty text, a frame that is not
\* JSON, a blank separator line, a frame without text, a comment line
LineSet ==
    { TextLine(<<"a">>),
      TextLine(<<LeadByte, ContByte>>),
      DoneLine,
      TextLine(<<>>),
      DataPrefix \o <<"{", "b", "a", "d">>,
      <<>>,
      DataPrefix \o <<"{", "}">>,
      <<":", "a">> }

\* lines of the bodies streamed to the chat page
ChatLineSet == { TextLine(<<"a">>), DoneLine }

\* bodies of at most n lines, each line terminated by a newline
RECURSIVE BodiesOf(_, _)
BodiesOf(lineSet, n) ==
    IF n = 0 THEN {<<>>}
    ELSE LET shorter == BodiesOf(lineSet, n - 1)
         IN shorter \cup {b \o l \o <<"\n">> : b \in shorter, l \in lineSet}

StreamBodies == BodiesOf(LineSet, MaxLines)
ChatBodies == BodiesOf(ChatLineSet, MaxChatLines)

\* sizes a chunk of a body of at most n lines can have
LongestLine == Len(TextLine(<<LeadByte, ContByte>>)) + 1
ChunkSizes(n) == 1..(n * LongestLine)

\* body of an error response
ErrorBodies == {<<>>, <<"{", "}">>}

Statuses == {200, 401}

\* axios' default validateStatus; `0` stands for "no response received"
Is2xx(st) == st >= 200 /\ st < 300

\* the request chatStream makes with fetch: the header is the template
\* literal `Bearer ${token}` whatever getItem returned
FetchRequest(tok) ==
    [by |-> <<"chat", 0>>, n |-> 0, url |-> "/ai/chat/stream",
     auth |-> Bearer(tok), stored |-> tok]

ApiUrls == {"/ai/context"}

(***************************************************************************)
(* Chat page                                                               *)
(***************************************************************************)
Greeting ==
    <<"H", "i", "!", " ", "I", "'", "m", " ", "y", "o", "u", "r", " ", "A",
      "I", " ", "t", "r", "a", "i", "n", "i", "n", "g", " ", "c", "o", "a",
      "c", "h", ".", " ", "I", " ", "c", "a", "n", " ", "h", "e", "l", "p",
      " ", "y", "o", "u", " ", "w", "i", "t", "h", " ", "t", "r", "a", "i",
      "n", "i", "n", "g", " ", "p", "l", "a", "n", "s", ",", " ", "w", "o",
      "r", "k", "o", "u", "t", " ", "a", "d", "v", "i", "c", "e", ",", " ",
      "p", "e", "r", "f", "o", "r", "m", "a", "n", "c", "e", " ", "a", "n",
      "a", "l", "y", "s", "i", "s", ",", " ", "a", "n", "d", " ", "m", "o",
      "r", "e", ".", " ", "W", "h", "a", "t", " ", "w", "o", "u", "l", "d",
      " ", "y", "o", "u", " ", "l", "i", "k", "e", " ", "t", "o", " ", "d",
      "i", "s", "c", "u", "s", "s", "?">>

Apology ==
    <<"I", "'", "m", " ", "s", "o", "r", "r", "y", ",", " ", "I", "'", "m",
      " ", "h", "a", "v", "i", "n", "g", " ", "t", "r", "o", "u", "b", "l",
      "e", " ", "c", "o", "n", "n", "e", "c", "t", "i", "n", "g", " ", "r",
      "i", "g", "h", "t", " ", "n", "o", "w", ".", " ", "P", "l", "e", "a",
      "s", "e", " ", "m", "a", "k", "e", " ", "s", "u", "r", "e", " ", "t",
      "h", "e", " ", "A", "I", " ", "s", "e", "r", "v", "i", "c", "e", " ",
      "i", "s", " ", "r", "u", "n", "n", "i", "n", "g", " ", "a", "n", "d",
      " ", "t", "r", "y", " ", "a", "g", "a", "i", "n", ".">>

WhiteSpace == {" ", "\n", "\t", "\r"}

\* String.prototype.trim
RECURSIVE Trim(_)
Trim(s) ==
    IF s = <<>> THEN s
    ELSE IF Head(s) \in WhiteSpace THEN Trim(Tail(s))
    ELSE IF s[Len(s)] \in WhiteSpace THEN Trim(SubSeq(s, 1, Len(s) - 1))
    ELSE s

\* what the user may type into the input
Inputs == {<<" ">>, <<" ", "h", "i", " ">>}

\* the functional updates of setMessages on the last message
AppendToLast_overwrite(msgs, text) ==
    [msgs EXCEPT ![Len(msgs)].content = text]

AppendToLast(msgs, text) ==
    [msgs EXCEPT ![Len(msgs)].content = @ \o text]

ReplaceLast(msgs, text) ==
    [msgs EXCEPT ![Len(msgs)].content = text]

InitPage ==
    /\ messages = <<[role |-> "assistant", content |-> Greeting]>>
    /\ input = <<>>
    /\ isLoading = FALSE
    /\ chatPc = "idle"
    /\ status = 0
    /\ branch = "none"
    /\ body = <<>>
    /\ pos = 0
    /\ calls = <<>>
    /\ decoded = <<>>
    /\ sends = 0
    /\ apiPc = "idle"
    /\ apiResult = [status |-> 0, result |-> "none"]

\* one iteration of the while loop of chatStream: reader.read() delivers the
\* next k bytes, which are decoded, split and handed line by line to onChunk
ReadChunk(k) ==
    /\ chatPc = "reading"
    /\ k \in 1..(Len(body) - pos)
    /\ LET value == SubSeq(body, pos + 1, pos + k)
           chunk == Decode(value)
       IN /\ decoded' = decoded \o chunk
          /\ calls' = calls \o ChunkCalls(chunk)
    /\ pos' = pos + k
    /\ UNCHANGED <<chatPc, body>>

\* reader.read() reports done
StreamEnded_atSentinel ==
    /\ chatPc = "reading"
    /\ \/ pos = Len(body)
       \/ \E i \in 1..Len(Split(decoded)) : Split(decoded)[i] = DoneLine

StreamEnded == chatPc = "reading" /\ pos = Len(body)

\* onChange of the input, which is disabled while isLoading
TypeInput(s) ==
    /\ ~isLoading
    /\ input' = s
    /\ UNCHANGED <<messages, isLoading, status, branch, sends>>
    /\ UNCHANGED <<streamVars, apiVars, token, sent, authSide>>
    /\ UNCHANGED panelVars

\* sendMessage up to the await of fetch inside chatStream; it returns at
\* once when the trimmed input is empty or isLoading holds
SendMessage_noGuard ==
    /\ sends < MaxSends
    /\ input' = <<>>
    /\ isLoading' = TRUE
    /\ messages' = messages \o <<[role |-> "user", content |-> Trim(input)],
                                 [role |-> "assistant", content |-> <<>>]>>
    /\ sent' = sent \cup {FetchRequest(token)}
    /\ chatPc' = "fetching"
    /\ status' = 0
    /\ branch' = "none"
    /\ body' = <<>>
    /\ pos' = 0
    /\ calls' = <<>>
    /\ decoded' = <<>>
    /\ sends' = sends + 1
    /\ UNCHANGED <<apiVars, token, authSide>>
    /\ UNCHANGED panelVars

SendMessage ==
    /\ Trim(input) # <<>>
    /\ ~isLoading
    /\ sends < MaxSends
    /\ input' = <<>>
    /\ isLoading' = TRUE
    /\ messages' = messages \o <<[role |-> "user", content |-> Trim(input)],
                                 [role |-> "assistant", content |-> <<>>]>>
    /\ sent' = sent \cup {FetchRequest(token)}
    /\ chatPc' = "fetching"
    /\ status' = 0
    /\ branch' = "none"
    /\ body' = <<>>
    /\ pos' = 0
    /\ calls' = <<>>
    /\ decoded' = <<>>
    /\ sends' = sends + 1
    /\ UNCHANGED <<apiVars, token, authSide>>
    /\ UNCHANGED panelVars

\* fetch rejected (no response): catch block, then finally; the locals of
\* chatStream (reader, decoder) are gone once the call has settled
FetchRejected ==
    /\ chatPc = "fetching"
    /\ messages' = ReplaceLast(messages, Apology)
    /\ isLoading' = FALSE
    /\ branch' = "failure"
    /\ chatPc' = "idle"
    /\ body' = <<>> /\ pos' = 0 /\ decoded' = <<>>
    /\ UNCHANGED <<input, status, sends, calls>>
    /\ UNCHANGED <<apiVars, token, sent, authSide>>
    /\ UNCHANGED panelVars

\* fetch resolved with a response of any status: chatStream takes the reader
\* of its body without looking at response.ok or response.status
FetchResponded(st, b) ==
    /\ chatPc = "fetching"
    /\ b \in (IF Is2xx(st) THEN ChatBodies ELSE ErrorBodies)
    /\ status' = st
    /\ body' = b
    /\ chatPc' = "reading"
    /\ UNCHANGED <<messages, input, isLoading, branch, sends, pos, calls,
                   decoded>>
    /\ UNCHANGED <<apiVars, token, sent, authSide>>
    /\ UNCHANGED panelVars

\* a chunk arrives while the page is waiting in chatStream: every text is
\* appended to the content of the last message
PageChunk(k) ==
    /\ ReadChunk(k)
    /\ messages' = AppendToLast(messages,
                       Concat(SubSeq(calls', Len(calls) + 1, Len(calls'))))
    /\ UNCHANGED <<input, isLoading, status, branch, sends>>
    /\ UNCHANGED <<apiVars, token, sent, authSide>>
    /\ UNCHANGED panelVars

\* reader.read() rejected in mid-stream: catch block, then finally
ReadFailed_keepPartial ==
    /\ chatPc = "reading"
    /\ messages' = AppendToLast(messages, Apology)
    /\ isLoading' = FALSE
    /\ branch' = "failure"
    /\ chatPc' = "idle"
    /\ body' = <<>> /\ pos' = 0 /\ decoded' = <<>>
    /\ UNCHANGED <<input, status, sends, calls>>
    /\ UNCHANGED <<apiVars, token, sent, authSide>>
    /\ UNCHANGED panelVars

ReadFailed ==
    /\ chatPc = "reading"
    /\ messages' = ReplaceLast(messages, Apology)
    /\ isLoading' = FALSE
    /\ branch' = "failure"
    /\ chatPc' = "idle"
    /\ body' = <<>> /\ pos' = 0 /\ decoded' = <<>>
    /\ UNCHANGED <<input, status, sends, calls>>
    /\ UNCHANGED <<apiVars, token, sent, authSide>>
    /\ UNCHANGED panelVars

\* the stream ended: chatStream resolves, the try block completes, finally
ChatResolved ==
    /\ StreamEnded
    /\ isLoading' = FALSE
    /\ branch' = "success"
    /\ chatPc' = "idle"
    /\ body' = <<>> /\ pos' = 0 /\ decoded' = <<>>
    /\ UNCHANGED <<messages, input, status, sends, calls>>
    /\ UNCHANGED <<apiVars, token, sent, authSide>>
    /\ UNCHANGED panelVars

\* a page calls one of the axios-based functions of the API client
ApiCall(url) ==
    /\ apiPc = "idle"
    /\ sent' = sent \cup {AxiosRequest(<<"api", 0>>, 0, url, token)}
    /\ apiPc' = "pending"
    /\ apiResult' = [status |-> 0, result |-> "none"]
    /\ UNCHANGED <<pageVars, streamVars, token, authSide>>
    /\ UNCHANGED panelVars

\* the request settles: axios resolves on a 2xx status and rejects otherwise
ApiSettled_logoutOn401(st) ==
    /\ apiPc = "pending"
    /\ apiPc' = "idle"
    /\ apiResult' = [status |-> st,
                     result |-> IF Is2xx(st) THEN "resolved" ELSE "rejected"]
    /\ token' = (IF st = 401 THEN None ELSE token)
    /\ UNCHANGED <<pageVars, streamVars, sent, authSide>>
    /\ UNCHANGED panelVars

ApiSettled(st) ==
    /\ apiPc = "pending"
    /\ apiPc' = "idle"
    /\ apiResult' = [status |-> st,
                     result |-> IF Is2xx(st) THEN "resolved" ELSE "rejected"]
    /\ UNCHANGED <<pageVars, streamVars, token, sent, authSide>>
    /\ UNCHANGED panelVars

(***************************************************************************)
(* Query cache and mutations (react-query)                                 *)
(*                                                                         *)
(* A query key is named by its first element; invalidateQueries matches    *)
(* keys by prefix, so ['activities', sportFilter], ['activities',          *)
(* 'recent'] and ['activities', 'calendar', ...] are all "activities".     *)
(***************************************************************************)
QueryKeys ==
    {"activities", "workouts", "coachingContext", "hrZones", "powerZones",
     "coachSettings"}

Mutations ==
    {"updateThresholds", "updateCoachSettings", "applyPlanModifications",
     "deleteActivity", "uploadFitFile"}

\* the keys the success handler of each mutation passes to
\* queryClient.invalidateQueries; handleDelete and uploadMutation.onSuccess
\* make no such call
Invalidates(m) ==
    CASE m = "updateThresholds" -> {"hrZones", "powerZones"}
      [] m = "updateCoachSettings" -> {"coachSettings"}
      [] m = "applyPlanModifications" -> {"workouts", "coachingContext"}
      [] m = "deleteActivity" -> {}
      [] m = "uploadFitFile" -> {}

\* the queries that read the resource a mutation writes: PUT
\* /zones/thresholds against GET /zones/hr and /zones/power, PUT against GET
\* /ai/settings, POST /ai/plan/apply against the planned workouts and the
\* coaching context, DELETE /activities/{id} and POST /activities/upload
\* against GET /activities
Affects(m) ==
    CASE m = "updateThresholds" -> {"hrZones", "powerZones"}
      [] m = "updateCoachSettings" -> {"coachSettings"}
      [] m = "applyPlanModifications" -> {"workouts", "coachingContext"}
      [] m = "deleteActivity" -> {"activities"}
      [] m = "uploadFitFile" -> {"activities"}

\* a cache entry: data is "absent", "current" (what the server holds now)
\* or "premutation" (fetched before a mutation changed it on the server)
NoEntry == [data |-> "absent", invalid |-> FALSE]

InitCache ==
    /\ cache = [q \in QueryKeys |-> NoEntry]
    /\ lastRead = "none"
    /\ mutation = [name |-> None, status |-> "idle"]

\* a component reads a query with useQuery: a missing or invalidated entry
\* is fetched, any other entry is served from the cache
QueryRead(q) ==
    /\ IF cache[q].data = "absent" \/ cache[q].invalid
         THEN /\ cache' = [cache EXCEPT
                             ![q] = [data |-> "current", invalid |-> FALSE]]
              /\ lastRead' = "current"
         ELSE /\ lastRead' = cache[q].data
              /\ UNCHANGED cache
    /\ UNCHANGED mutation
    /\ UNCHANGED <<settingsVars, snapshot, uploadVars>>
    /\ UNCHANGED <<authVars, sent, chatSide>>
    /\ UNCHANGED moreVars

\* mutation.mutate(...) / handleDelete: the request is issued
MutationStart(m) ==
    /\ mutation.status # "pending"
    /\ mutation' = [name |-> m, status |-> "pending"]
    /\ UNCHANGED <<cache, lastRead>>
    /\ UNCHANGED <<settingsVars, snapshot, uploadVars>>
    /\ UNCHANGED <<authVars, sent, chatSide>>
    /\ UNCHANGED moreVars

\* the cache after mutation m succeeded
AfterSuccess(c, m) ==
    [q \in QueryKeys |->
       IF c[q].data = "absent" THEN c[q]
       ELSE [data |-> IF q \in Affects(m) THEN "premutation" ELSE c[q].data,
             invalid |-> c[q].invalid \/ q \in Invalidates(m)]]

\* the request succeeded: the server data the mutation writes has changed,
\* and the success handler invalidates the keys it names
MutationSuccess ==
    /\ mutation.status = "pending"
    /\ cache' =
         [q \in QueryKeys |->
            IF cache[q].data = "absent" THEN cache[q]
            ELSE [data |-> IF q \in Affects(mutation.name) THEN "premutation"
                           ELSE cache[q].data,
                  invalid |-> \/ cache[q].invalid
                              \/ q \in Invalidates(mutation.name)]]
    /\ mutation' = [mutation EXCEPT !.status = "success"]
    /\ UNCHANGED lastRead
    /\ UNCHANGED <<settingsVars, snapshot, uploadVars>>
    /\ UNCHANGED <<authVars, sent, chatSide>>
    /\ UNCHANGED moreVars

\* the request failed: nothing changed on the server, nothing is invalidated
MutationError ==
    /\ mutation.status = "pending"
    /\ mutation' = [mutation EXCEPT !.status = "error"]
    /\ UNCHANGED <<cache, lastRead>>
    /\ UNCHANGED <<settingsVars, snapshot, uploadVars>>
    /\ UNCHANGED <<authVars, sent, chatSide>>
    /\ UNCHANGED moreVars

(***************************************************************************)
(* Settings page: the zone previews of ThresholdsTab and ZonesTab          *)
(*                                                                         *)
(* The value of an <input type="number"> is a text, modelled as a sequence *)
(* of characters; a number that may be missing (undefined, null) is the    *)
(* empty sequence when missing and <<n>> when it is n.                     *)
(***************************************************************************)
DigitChars == <<"0", "1", "2", "3", "4", "5", "6", "7", "8", "9">>

DigitValue(c) == CHOOSE d \in 0..9 : DigitChars[d + 1] = c

IsDigit(c) == \E d \in 0..9 : DigitChars[d + 1] = c

\* parseInt(s) for a text that starts with a digit, or with a minus sign
\* and a digit: the digits up to the first other character are converted
RECURSIVE ParseDigits(_, _)
ParseDigits(s, acc) ==
    IF s = <<>> \/ ~IsDigit(Head(s)) THEN acc
    ELSE ParseDigits(Tail(s), 10 * acc + DigitValue(Head(s)))

ParseInt(s) ==
    IF Head(s) = "-" THEN 0 - ParseDigits(Tail(s), 0) ELSE ParseDigits(s, 0)

\* truthiness of a string: every text but the empty one
Truthy(s) == s # <<>>

\* Math.round(n * m) for an integer n and a multiplier m written with two
\* decimals, m = pct / 100: the nearest integer, a tie going up.  The
\* doubles 0.55 and 1.1 lie above the decimals they stand for and n * 1.2
\* is never a tie, so the floating-point product rounds to the same integer
Round_floor(n, pct) == (n * pct) \div 100

Round(n, pct) == (n * pct + 50) \div 100

Row(zone, lower, upper) == [zone |-> zone, lower |-> lower, upper |-> upper]

\* what the user may type into one of the three inputs
FieldValues ==
    { <<>>, <<"0">>, <<"1">>, <<"5">>, <<"1", ".", "5">>, <<"1", "8", "0">>,
      <<"1", "9", "0">>, <<"2", "0", "0">>, <<"2", "5", "0">> }

ThresholdKeys == {"threshold_hr", "max_hr", "threshold_power"}

\* ThresholdsTab, "Heart Rate (bpm)" of "Your Zones Preview": the rows
\* rendered for the state `thresholds`
ThresholdsHrRows(th) ==
    LET L == ParseInt(th.threshold_hr)
    IN IF ~(Truthy(th.threshold_hr) \/ Truthy(th.max_hr)
             \/ Truthy(th.threshold_power))
         THEN <<>>
       ELSE IF ~(Truthy(th.threshold_hr) \/ Truthy(th.max_hr))
         THEN <<>>
       ELSE (IF Truthy(th.threshold_hr)
               THEN << Row(1, 0, Round(L, 50)),
                       Row(2, Round(L, 50) + 1, Round(L, 75)),
                       Row(3, Round(L, 75) + 1, L),
                       Row(4, L + 1, Round(L, 110)) >>
               ELSE <<>>)
            \o (IF Truthy(th.max_hr) /\ Truthy(th.threshold_hr)
                  THEN << Row(5, Round(L, 110) + 1, ParseInt(th.max_hr)) >>
                  ELSE <<>>)

\* ThresholdsTab, "Power (watts)" of "Your Zones Preview"
ThresholdsPowerRows(th) ==
    LET P == ParseInt(th.threshold_power)
    IN IF ~(Truthy(th.threshold_hr) \/ Truthy(th.max_hr)
             \/ Truthy(th.threshold_power))
         THEN <<>>
       ELSE IF Truthy(th.threshold_power)
         THEN << Row(1, 0, Round(P, 55)),
                 Row(2, Round(P, 55) + 1, Round(P, 75)),
                 Row(3, Round(P, 75) + 1, P),
                 Row(4, P + 1, Round(P, 120)),
                 Row(5, Round(P, 120) + 1, Round(P, 150)) >>
       ELSE <<>>

\* `x || 0` for a number that may be missing
OrZero(v) == IF v = <<>> THEN 0 ELSE v[1]

\* ZonesTab, "Heart Rate (bpm)" of "Your Zones"
ZonesHrRows_sharedBound(u) ==
    LET lthr == OrZero(u.threshold_hr)
        maxHr == OrZero(u.max_hr)
    IN IF lthr > 0 \/ maxHr > 0
         THEN << Row(1, 0, Round(lthr, 50)),
                 Row(2, Round(lthr, 50) + 1, Round(lthr, 75)),
                 Row(3, Round(lthr, 75) + 1, lthr),
                 Row(4, lthr, Round(lthr, 110)),
                 Row(5, Round(lthr, 110) + 1, maxHr) >>
       ELSE <<>>

ZonesHrRows(u) ==
    LET lthr == OrZero(u.threshold_hr)
        maxHr == OrZero(u.max_hr)
    IN IF lthr > 0 \/ maxHr > 0
         THEN << Row(1, 0, Round(lthr, 50)),
                 Row(2, Round(lthr, 50) + 1, Round(lthr, 75)),
                 Row(3, Round(lthr, 75) + 1, lthr),
                 Row(4, lthr + 1, Round(lthr, 110)),
                 Row(5, Round(lthr, 110) + 1, maxHr) >>
       ELSE <<>>

\* ZonesTab, "Power (watts)" of "Your Zones": rendered inside the branch
\* `lthr > 0 || maxHr > 0`
ZonesPowerRows(u) ==
    LET lthr == OrZero(u.threshold_hr)
        maxHr == OrZero(u.max_hr)
        ftp == OrZero(u.threshold_power)
    IN IF (lthr > 0 \/ maxHr > 0) /\ ftp > 0
         THEN << Row(1, 0, Round(ftp, 55)),
                 Row(2, Round(ftp, 55) + 1, Round(ftp, 75)),
                 Row(3, Round(ftp, 75) + 1, ftp),
                 Row(4, ftp + 1, Round(ftp, 120)),
                 Row(5, Round(ftp, 120) + 1, Round(ftp, 150)) >>
       ELSE <<>>

\* thresholds of the user the server may report to the ['user'] query
UserThresholds ==
    [threshold_hr : {<<>>, <<0>>, <<1>>, <<180>>},
     max_hr : {<<>>, <<200>>},
     threshold_power : {<<>>, <<0>>, <<250>>}]

InitSettings ==
    /\ thresholds = [k \in ThresholdKeys |-> <<>>]
    /\ userData = [k \in ThresholdKeys |-> <<>>]

\* onChange of one of the inputs: setThresholds({ ...thresholds, key: value })
SetThreshold(key, value) ==
    /\ thresholds' = [thresholds EXCEPT ![key] = value]
    /\ UNCHANGED userData
    /\ UNCHANGED <<cacheVars, snapshot, uploadVars>>
    /\ UNCHANGED <<authVars, sent, chatSide>>
    /\ UNCHANGED moreVars

\* the ['user'] query of ZonesTab resolves
UserFetched(u) ==
    /\ userData' = u
    /\ UNCHANGED thresholds
    /\ UNCHANGED <<cacheVars, snapshot, uploadVars>>
    /\ UNCHANGED <<authVars, sent, chatSide>>
    /\ UNCHANGED moreVars

(***************************************************************************)
(* Dashboard: the training-status classifier                               *)
(*                                                                         *)
(* TSB is a real number; the model holds twice its value, so that the      *)
(* halves between the integers are covered.                                *)
(***************************************************************************)
\* largest absolute value of TSB the server reports
MaxTsb == 32

TsbValues == (0 - 2 * MaxTsb)..(2 * MaxTsb)

\* formStatus(tsb), for h = 2 * tsb
FormStatus_inclusive(h) ==
    IF h <= 2 * (0 - 30) THEN [text |-> "Very Fatigued", color |-> "red"]
    ELSE IF h <= 2 * (0 - 10)
      THEN [text |-> "Training Hard", color |-> "yellow"]
    ELSE IF h <= 2 * 5 THEN [text |-> "Neutral", color |-> "blue"]
    ELSE IF h <= 2 * 15 THEN [text |-> "Fresh", color |-> "green"]
    ELSE [text |-> "Very Fresh", color |-> "green"]

FormStatus(h) ==
    IF h < 2 * (0 - 30) THEN [text |-> "Very Fatigued", color |-> "red"]
    ELSE IF h < 2 * (0 - 10)
      THEN [text |-> "Training Hard", color |-> "yellow"]
    ELSE IF h < 2 * 5 THEN [text |-> "Neutral", color |-> "blue"]
    ELSE IF h < 2 * 15 THEN [text |-> "Fresh", color |-> "green"]
    ELSE [text |-> "Very Fresh", color |-> "green"]

\* const status = snapshot ? formStatus(snapshot.form) : { text: '-', ... }
DashboardStatus(snap) ==
    IF snap = <<>> THEN [text |-> "-", color |-> "blue"]
    ELSE FormStatus(snap[1])

InitDashboard == snapshot = <<>>

\* the ['performanceSnapshot'] query resolves with a snapshot of form h / 2
SnapshotFetched(h) ==
    /\ snapshot' = <<h>>
    /\ UNCHANGED <<cacheVars, settingsVars, uploadVars>>
    /\ UNCHANGED <<authVars, sent, chatSide>>
    /\ UNCHANGED moreVars

(***************************************************************************)
(* Upload page                                                             *)
(***************************************************************************)
\* number of uploads started during one behaviour
MaxUploads == 2

\* names of the files the user may pick or drop
FileNames ==
    { <<"a", ".", "f", "i", "t">>, <<"a", ".", "F", "I", "T">>,
      <<"a", ".", "g", "p", "x">>, <<"f", "i", "t">>,
      <<"a", ".", "f", "i", "t", "x">> }

\* String.prototype.toLowerCase, over the letters of the file names
ToLowerCase_identity(s) == s

ToLowerCase(s) ==
    [i \in 1..Len(s) |->
       CASE s[i] = "F" -> "f"
         [] s[i] = "I" -> "i"
         [] s[i] = "T" -> "t"
         [] OTHER -> s[i]]

\* s.endsWith(suffix)
EndsWith(s, suffix) ==
    /\ Len(s) >= Len(suffix)
    /\ SubSeq(s, Len(s) - Len(suffix) + 1, Len(s)) = suffix

NoResult == <<>>

UploadError(message) == <<[type |-> "error", message |-> message]>>

\* messages an Error thrown by the request may carry
ErrorMessages == {"", "Network Error"}

InitUpload ==
    /\ uploadResult = NoResult
    /\ uploadLog = <<>>
    /\ inflight = {}

\* handleFile(file); uploadMutation.mutate(file) runs uploadFitFile, which
\* posts the file through the axios instance. handleChange and handleDrop
\* both call it: the file input is disabled while the mutation is pending,
\* the drop zone is not, and handleFile itself does not look at isPending
HandleFile(file) ==
    /\ IF ~EndsWith(ToLowerCase(file), <<".", "f", "i", "t">>)
         THEN /\ uploadResult' = UploadError("Only .FIT files are supported.")
              /\ UNCHANGED <<uploadLog, inflight, sent>>
         ELSE /\ Len(uploadLog) < MaxUploads
              /\ uploadResult' = NoResult
              /\ uploadLog' = Append(uploadLog, file)
              /\ inflight' = inflight \cup {Len(uploadLog) + 1}
              /\ sent' = sent \cup
                   {AxiosRequest(<<"upload", Len(uploadLog) + 1>>,
                                 Len(uploadLog) + 1, "/activities/upload",
                                 token)}
    /\ UNCHANGED <<cacheVars, settingsVars, snapshot>>
    /\ UNCHANGED <<authVars, chatSide>>
    /\ UNCHANGED moreVars

\* uploadMutation.onSuccess for the upload of uploadLog[i]
UploadSucceeded(i, duplicates) ==
    /\ i \in inflight
    /\ inflight' = inflight \ {i}
    /\ uploadResult' =
         IF duplicates
           THEN <<[type |-> "duplicate",
                   message |-> "Potential duplicate found. Activity saved but may overlap with existing data."]>>
           ELSE <<[type |-> "success",
                   message |-> "Activity uploaded successfully!"]>>
    /\ UNCHANGED <<uploadLog, sent>>
    /\ UNCHANGED <<cacheVars, settingsVars, snapshot>>
    /\ UNCHANGED <<authVars, chatSide>>
    /\ UNCHANGED moreVars

\* uploadMutation.onError for the upload of uploadLog[i]
UploadFailed(i, message) ==
    /\ i \in inflight
    /\ inflight' = inflight \ {i}
    /\ uploadResult' =
         UploadError(IF message # "" THEN message
                     ELSE "Upload failed. Please try again.")
    /\ UNCHANGED <<uploadLog, sent>>
    /\ UNCHANGED <<cacheVars, settingsVars, snapshot>>
    /\ UNCHANGED <<authVars, chatSide>>
    /\ UNCHANGED moreVars

(***************************************************************************)
(* FIT download link (getWorkoutFitUrl, called by PlanModifier)            *)
(***************************************************************************)
WorkoutIds == {"w1", "w2"}

NoUrl == <<>>

\* the template literal `.../ai/workout/${workoutId}/fit?token=${token}`:
\* a null token is written into the URL as the text "null"
getWorkoutFitUrl(workoutId, tok) ==
    <<"/ai/workout/", workoutId, "/fit?token=", tok>>

InitFit == fitUrl = NoUrl

\* PlanModifier renders the download link of an applied workout
DownloadLink(workoutId) ==
    /\ fitUrl' = getWorkoutFitUrl(workoutId, token)
    /\ fitUrl' # fitUrl
    /\ UNCHANGED <<authVars, sent, chatSide>>
    /\ UNCHANGED <<pagePanels, coachVars, planVars, detailVars>>

(***************************************************************************)
(* Coach settings tab (CoachTab of the settings page)                      *)
(***************************************************************************)
CoachTypes == {"specialist", "generalist"}
TrainingPlans == {"polarized", "traditional"}
TimeConstraints == {"moderate", "minimal"}

\* weekly_hours_available is optional: <<>> stands for undefined
WeeklyHours == {<<>>, <<8>>}

\* what GET /ai/settings may return
CoachSettings ==
    [coach_type : CoachTypes, training_plan : TrainingPlans,
     time_constraint : TimeConstraints, weekly_hours_available : WeeklyHours]

\* the initial value of useState
DefaultSettings ==
    [coach_type |-> "specialist", training_plan |-> "polarized",
     time_constraint |-> "moderate", weekly_hours_available |-> <<>>]

\* `data` of a query that has not resolved yet
NoData == <<>>

\* the cards a click can select: the generalist and recreational coach
\* cards and the traditional and threshold plan cards are disabled
Editable ==
    [coach_type |-> {"specialist"}, training_plan |-> {"polarized"},
     time_constraint |-> TimeConstraints]

CardIds == CoachTypes \cup TrainingPlans \cup TimeConstraints

\* the statement in the component body that runs on every render:
\* if (savedSettings && settings.coach_type !== savedSettings.coach_type)
\*     setSettings(savedSettings)
SyncOnRender(s, saved) ==
    IF saved # NoData /\ s.coach_type # saved.coach_type THEN saved ELSE s

\* the first render of a first visit: the query has no data yet, so the
\* function passed to the second useState, which runs only now, copies
\* nothing
InitCoach ==
    /\ savedSettings = NoData
    /\ settings = DefaultSettings
    /\ edited = FALSE
    /\ coachMutation = [status |-> "idle", variables |-> NoData]

\* the ['coachSettings'] query resolves (first fetch, or the refetch after
\* an invalidation) and the component renders again
SettingsFetched(s) ==
    /\ s # savedSettings
    /\ savedSettings' = s
    /\ settings' = SyncOnRender(settings, s)
    /\ UNCHANGED <<edited, coachMutation>>
    /\ UNCHANGED <<authVars, sent, chatSide>>
    /\ UNCHANGED <<pagePanels, fitUrl, planVars, detailVars>>

\* a click on an enabled card: setSettings({ ...settings, [field]: id })
SelectCard(field, id) ==
    /\ id \in Editable[field]
    /\ settings' = SyncOnRender([settings EXCEPT ![field] = id],
                                savedSettings)
    /\ edited' = TRUE
    /\ UNCHANGED <<savedSettings, coachMutation>>
    /\ UNCHANGED <<authVars, sent, chatSide>>
    /\ UNCHANGED <<pagePanels, fitUrl, planVars, detailVars>>

\* a change of the hours input (parseFloat of its value, or undefined)
ChangeHours(value) ==
    /\ settings' =
          SyncOnRender([settings EXCEPT !.weekly_hours_available = value],
                       savedSettings)
    /\ edited' = TRUE
    /\ UNCHANGED <<savedSettings, coachMutation>>
    /\ UNCHANGED <<authVars, sent, chatSide>>
    /\ UNCHANGED <<pagePanels, fitUrl, planVars, detailVars>>

\* handleSave: mutation.mutate(settings); the button is disabled while the
\* mutation is pending
CoachSave ==
    /\ coachMutation.status # "pending"
    /\ coachMutation' = [status |-> "pending", variables |-> settings]
    /\ sent' = sent \cup {AxiosRequest(<<"api", 0>>, 0, "/ai/settings", token)}
    /\ UNCHANGED <<settings, savedSettings, edited>>
    /\ UNCHANGED <<authVars, chatSide>>
    /\ UNCHANGED <<pagePanels, fitUrl, planVars, detailVars>>

\* PUT /ai/settings settles; onSuccess invalidates ['coachSettings'], and
\* the refetch is a later SettingsFetched
CoachSaveSettled(ok) ==
    /\ coachMutation.status = "pending"
    /\ coachMutation' = [coachMutation EXCEPT
                            !.status = IF ok THEN "success" ELSE "error"]
    /\ cache' = (IF ok THEN AfterSuccess(cache, "updateCoachSettings")
                 ELSE cache)
    /\ UNCHANGED <<settings, savedSettings, edited>>
    /\ UNCHANGED <<authVars, sent, chatSide>>
    /\ UNCHANGED <<lastRead, mutation, settingsVars, snapshot, uploadVars>>
    /\ UNCHANGED <<fitUrl, planVars, detailVars>>

(***************************************************************************)
(* Plan modifier (PlanModifier)                                            *)
(***************************************************************************)
NoSuggestions == <<>>

\* a PlanModificationResponse: its raw_response and its success flag
Responses == [raw_response : {"r1", "r2"}, success : BOOLEAN]

\* the mutations whose onSuccess is setSuggestions(data)
SuggestingMutations == {"analyze", "generate", "refine"}

PlanUrl(name) ==
    CASE name = "analyze" -> "/ai/plan/analyze"
      [] name = "generate" -> "/ai/plan/generate"
      [] name = "refine" -> "/ai/plan/refine"
      [] name = "apply" -> "/ai/plan/apply"

\* isLoading: one of the four mutations is pending
PlanIsLoading == planMutation.status = "pending"

InitPlan ==
    /\ suggestions = NoSuggestions
    /\ planMutation = [name |-> None, status |-> "idle"]
    /\ dismissed = FALSE

\* mutate() of one of the four mutations. Every button that starts one is
\* disabled while isLoading; Refine and Apply are rendered only with
\* suggestions, and Apply is disabled unless suggestions.success
PlanRequest(name) ==
    /\ ~PlanIsLoading
    /\ name \in {"refine", "apply"} => suggestions # NoSuggestions
    /\ name = "apply" => suggestions.success
    /\ planMutation' = [name |-> name, status |-> "pending"]
    /\ dismissed' = (IF name \in SuggestingMutations THEN FALSE
                     ELSE dismissed)
    /\ sent' = sent \cup {AxiosRequest(<<"api", 0>>, 0, PlanUrl(name), token)}
    /\ UNCHANGED suggestions
    /\ UNCHANGED <<authVars, chatSide>>
    /\ UNCHANGED <<pagePanels, fitUrl, coachVars, detailVars>>

\* onSuccess: analyze, generate and refine show the response; apply
\* invalidates ['workouts'] and ['coachingContext'] and clears the panel
PlanSucceeded(data) ==
    /\ PlanIsLoading
    /\ planMutation' = [planMutation EXCEPT !.status = "success"]
    /\ IF planMutation.name \in SuggestingMutations
         THEN /\ suggestions' = data
              /\ UNCHANGED cache
         ELSE /\ suggestions' = NoSuggestions
              /\ cache' = AfterSuccess(cache, "applyPlanModifications")
    /\ UNCHANGED dismissed
    /\ UNCHANGED <<authVars, sent, chatSide>>
    /\ UNCHANGED <<lastRead, mutation, settingsVars, snapshot, uploadVars>>
    /\ UNCHANGED <<fitUrl, coachVars, detailVars>>

\* the request failed: none of the mutations has an onError
PlanFailed ==
    /\ PlanIsLoading
    /\ planMutation' = [planMutation EXCEPT !.status = "error"]
    /\ UNCHANGED <<suggestions, dismissed>>
    /\ UNCHANGED <<authVars, sent, chatSide>>
    /\ UNCHANGED <<pagePanels, fitUrl, coachVars, detailVars>>

\* the Dismiss and Cancel buttons of the suggestions panel:
\* setSuggestions(null); neither is disabled while a request is pending
Dismiss ==
    /\ suggestions # NoSuggestions
    /\ suggestions' = NoSuggestions
    /\ dismissed' = TRUE
    /\ UNCHANGED planMutation
    /\ UNCHANGED <<authVars, sent, chatSide>>
    /\ UNCHANGED <<pagePanels, fitUrl, coachVars, detailVars>>

(***************************************************************************)
(* Activity detail page (ActivityDetailPage.handleDelete)                  *)
(***************************************************************************)
InitDetail ==
    /\ isDeleting = FALSE
    /\ shownDeleting = FALSE
    /\ answers = <<>>
    /\ pendingDeletes = 0
    /\ deleteStatus = "none"
    /\ redirect = "none"

\* a click on the Delete button runs handleDelete up to its await. The
\* button is disabled, and handleDelete closes over isDeleting, as of the
\* last render; setIsDeleting(true) is called inside the click handler, so
\* the page has rendered again before the next event is handled
ClickDelete_neverDisabled(confirmed) ==
    /\ redirect # "done"
    /\ Len(answers) < MaxClicks
    /\ answers' = Append(answers, confirmed)
    /\ IF confirmed
         THEN /\ isDeleting' = TRUE
              /\ shownDeleting' = TRUE
              /\ pendingDeletes' = pendingDeletes + 1
              /\ sent' = sent \cup {AxiosRequest(<<"api", 0>>, 0,
                                                 "/activities/a1", token)}
         ELSE UNCHANGED <<isDeleting, shownDeleting, pendingDeletes, sent>>
    /\ UNCHANGED <<deleteStatus, redirect>>
    /\ UNCHANGED <<authVars, chatSide>>
    /\ UNCHANGED <<pagePanels, fitUrl, coachVars, planVars>>

ClickDelete(confirmed) ==
    /\ redirect # "done"
    /\ ~shownDeleting
    /\ Len(answers) < MaxClicks
    /\ answers' = Append(answers, confirmed)
    /\ IF confirmed /\ ~shownDeleting
         THEN /\ isDeleting' = TRUE
              /\ shownDeleting' = TRUE
              /\ pendingDeletes' = pendingDeletes + 1
              /\ sent' = sent \cup {AxiosRequest(<<"api", 0>>, 0,
                                                 "/activities/a1", token)}
         ELSE UNCHANGED <<isDeleting, shownDeleting, pendingDeletes, sent>>
    /\ UNCHANGED <<deleteStatus, redirect>>
    /\ UNCHANGED <<authVars, chatSide>>
    /\ UNCHANGED <<pagePanels, fitUrl, coachVars, planVars>>

\* deleteActivity resolved: the redirect is scheduled with setTimeout
DeleteSucceeded ==
    /\ pendingDeletes > 0
    /\ pendingDeletes' = pendingDeletes - 1
    /\ deleteStatus' = "success"
    /\ redirect' = (IF redirect = "done" THEN redirect ELSE "timer")
    /\ UNCHANGED <<isDeleting, shownDeleting, answers>>
    /\ UNCHANGED <<authVars, sent, chatSide>>
    /\ UNCHANGED <<pagePanels, fitUrl, coachVars, planVars>>

\* deleteActivity rejected: the catch block alerts and calls
\* setIsDeleting(false); the render it schedules is a later task
DeleteFailed ==
    /\ pendingDeletes > 0
    /\ pendingDeletes' = pendingDeletes - 1
    /\ deleteStatus' = "error"
    /\ isDeleting' = FALSE
    /\ UNCHANGED <<shownDeleting, answers, redirect>>
    /\ UNCHANGED <<authVars, sent, chatSide>>
    /\ UNCHANGED <<pagePanels, fitUrl, coachVars, planVars>>

\* the page renders with the current state
RenderDetail ==
    /\ redirect # "done"
    /\ shownDeleting # isDeleting
    /\ shownDeleting' = isDeleting
    /\ UNCHANGED <<isDeleting, answers, pendingDeletes, deleteStatus,
                   redirect>>
    /\ UNCHANGED <<authVars, sent, chatSide>>
    /\ UNCHANGED <<pagePanels, fitUrl, coachVars, planVars>>

\* the timer fires: router.push('/activities')
Redirect ==
    /\ redirect = "timer"
    /\ redirect' = "done"
    /\ nav' = "/activities"
    /\ UNCHANGED <<isDeleting, shownDeleting, answers, pendingDeletes,
                   deleteStatus>>
    /\ UNCHANGED <<token, user, loading, bootPc, ops, sent, chatSide>>
    /\ UNCHANGED <<pagePanels, fitUrl, coachVars, planVars>>

\* the pages added to the panels
InitMore == InitFit /\ InitCoach /\ InitPlan /\ InitDetail

\* the pages other than the chat page, as they are first rendered
InitPanels ==
    InitCache /\ InitSettings /\ InitDashboard /\ InitUpload /\ InitMore

\* the chat page of a session that has finished its start-up
InitChat ==
    /\ token \in {None} \cup Tokens
    /\ user = (IF token = None THEN None ELSE "u1")
    /\ loading = FALSE
    /\ nav = "/coach"
    /\ bootPc = (IF token = None THEN "noToken" ELSE "ok")
    /\ ops = [i \in Ops |-> IdleOp]
    /\ sent = (IF token = None THEN {}
               ELSE {AxiosRequest(<<"boot", 0>>, 0, "/auth/me", token)})
    /\ InitPage
    /\ InitPanels

NextChat ==
    \/ \E s \in Inputs : TypeInput(s)
    \/ SendMessage
    \/ FetchRejected
    \/ \E st \in Statuses, b \in ChatBodies \cup ErrorBodies :
          FetchResponded(st, b)
    \/ \E k \in ChunkSizes(MaxChatLines) : PageChunk(k)
    \/ ReadFailed
    \/ ChatResolved
    \/ \E url \in ApiUrls : ApiCall(url)
    \/ \E st \in Statuses \cup {0} : ApiSettled(st)

SpecChat == InitChat /\ [][NextChat]_vars

(***************************************************************************)
(* chatStream on its own, called with a callback that records its calls,   *)
(* from the point where fetch has resolved with a body                     *)
(***************************************************************************)
StreamChunk(k) ==
    /\ ReadChunk(k)
    /\ UNCHANGED <<pageVars, apiVars, token, sent, authSide>>
    /\ UNCHANGED panelVars

StreamDone ==
    /\ StreamEnded
    /\ chatPc' = "done"
    /\ UNCHANGED <<body, pos, calls, decoded>>
    /\ UNCHANGED <<pageVars, apiVars, token, sent, authSide>>
    /\ UNCHANGED panelVars

InitStream ==
    /\ token = None
    /\ user = None
    /\ loading = FALSE
    /\ nav = "/coach"
    /\ bootPc = "noToken"
    /\ ops = [i \in Ops |-> IdleOp]
    /\ sent = {}
    /\ messages = <<[role |-> "assistant", content |-> Greeting]>>
    /\ input = <<>>
    /\ isLoading = FALSE
    /\ status = 200
    /\ branch = "none"
    /\ sends = 0
    /\ apiPc = "idle"
    /\ apiResult = [status |-> 0, result |-> "none"]
    /\ chatPc = "reading"
    /\ body \in StreamBodies
    /\ pos = 0
    /\ calls = <<>>
    /\ decoded = <<>>
    /\ InitPanels

NextStream ==
    \/ \E k \in ChunkSizes(MaxLines) : StreamChunk(k)
    \/ StreamDone

SpecStream == InitStream /\ [][NextStream]_vars

Init == InitAuth /\ InitPage /\ InitPanels

Next ==
    \/ BootStart
    \/ \E u \in Users : BootMeOk(u)
    \/ BootMeFail
    \/ \E i \in Ops, kind \in {"login", "register"} : AuthStart(i, kind)
    \/ \E i \in Ops, t \in Tokens : ExchangeOk(i, t)
    \/ \E i \in Ops : ExchangeFail(i)
    \/ \E i \in Ops, u \in Users : MeOk(i, u)
    \/ \E i \in Ops : MeFail(i)
    \/ Logout

Spec == Init /\ [][Next]_vars

(***************************************************************************)
(* The pages other than the chat page, each on its own                     *)
(***************************************************************************)
\* a page of a session that has finished its start-up
InitApp ==
    /\ token \in {None} \cup Tokens
    /\ user = (IF token = None THEN None ELSE "u1")
    /\ loading = FALSE
    /\ nav = "/dashboard"
    /\ bootPc = (IF token = None THEN "noToken" ELSE "ok")
    /\ ops = [i \in Ops |-> IdleOp]
    /\ sent = (IF token = None THEN {}
               ELSE {AxiosRequest(<<"boot", 0>>, 0, "/auth/me", token)})
    /\ InitPage
    /\ InitPanels

NextCache ==
    \/ \E q \in QueryKeys : QueryRead(q)
    \/ \E m \in Mutations : MutationStart(m)
    \/ MutationSuccess
    \/ MutationError

SpecCache == InitApp /\ [][NextCache]_vars

NextSettings ==
    \/ \E key \in ThresholdKeys, value \in FieldValues :
          SetThreshold(key, value)
    \/ \E u \in UserThresholds : UserFetched(u)

SpecSettings == InitApp /\ [][NextSettings]_vars

NextDashboard == \E h \in TsbValues : SnapshotFetched(h)

SpecDashboard == InitApp /\ [][NextDashboard]_vars

NextUpload ==
    \/ \E file \in FileNames : HandleFile(file)
    \/ \E i \in 1..MaxUploads, duplicates \in BOOLEAN :
          UploadSucceeded(i, duplicates)
    \/ \E i \in 1..MaxUploads, message \in ErrorMessages :
          UploadFailed(i, message)

SpecUpload == InitApp /\ [][NextUpload]_vars

\* the client functions called from the pages: the chat page with its
\* streaming call, an axios-based call, and the FIT download link
NextClient ==
    \/ NextChat
    \/ \E workoutId \in WorkoutIds : DownloadLink(workoutId)

SpecClient == InitChat /\ [][NextClient]_vars

NextCoach ==
    \/ \E s \in CoachSettings : SettingsFetched(s)
    \/ \E field \in DOMAIN Editable, id \in CardIds : SelectCard(field, id)
    \/ \E value \in WeeklyHours : ChangeHours(value)
    \/ CoachSave
    \/ \E ok \in BOOLEAN : CoachSaveSettled(ok)

SpecCoach == InitApp /\ [][NextCoach]_vars

NextPlan ==
    \/ \E name \in SuggestingMutations \cup {"apply"} : PlanRequest(name)
    \/ \E data \in Responses : PlanSucceeded(data)
    \/ PlanFailed
    \/ Dismiss
    \/ \E workoutId \in WorkoutIds : DownloadLink(workoutId)

SpecPlan == InitApp /\ [][NextPlan]_vars

NextDetail ==
    \/ \E confirmed \in BOOLEAN : ClickDelete(confirmed)
    \/ DeleteSucceeded
    \/ DeleteFailed
    \/ RenderDetail
    \/ Redirect

SpecDetail == InitApp /\ [][NextDetail]_vars

(***************************************************************************)
(* Properties of the auth session holder                                   *)
(***************************************************************************)
IsPrefix(s, t) == Len(s) <= Len(t) /\ SubSeq(t, 1, Len(s)) = s

\* requests issued by the start-up effect
BootRequests == {r \in sent : r.by = <<"boot", 0>>}

\* no login/register has stored a user / has received an access token
NoOpDone == \A i \in Ops : ops[i].pc # "done"
NoExchangeResolved == \A i \in Ops : ops[i].access = None

\* C2: in every reachable state a non-null in-memory user implies that a
\* token is present in local storage.
UserImpliesToken == user # None => token # None

\* C6: start-up with a stored token whose current-user fetch fails issues
\* exactly one current-user request, removes the token, leaves the user
\* null and sets loading to false.
BootFailureLogsOut ==
    /\ [](bootPc = "failed" =>
            /\ ~loading
            /\ Cardinality(BootRequests) = 1
            /\ \A r \in BootRequests : r.url = "/auth/me"
            /\ (NoExchangeResolved => token = None)
            /\ (NoOpDone => user = None))
    /\ [][bootPc = "fetching" /\ bootPc' = "failed" =>
            token' = None /\ user' = user /\ ~loading' /\ sent' = sent]_vars

BootFailureReached ==
    bootPc = "failed" /\ token = None /\ user = None /\ ~loading

\* C7: start-up with no stored token resolves to user = null and
\* loading = false without issuing any network request.
BootWithoutTokenIsSilent ==
    /\ [](bootPc = "noToken" =>
            /\ ~loading
            /\ BootRequests = {}
            /\ (NoOpDone => user = None))
    /\ [][bootPc = "start" /\ token = None /\ bootPc' # bootPc =>
            /\ bootPc' = "noToken"
            /\ sent = {} /\ sent' = {}
            /\ user' = None /\ ~loading']_vars

BootWithoutTokenReached ==
    bootPc = "noToken" /\ sent = {} /\ user = None /\ ~loading

\* C8: a successful login or register exchanges the credentials, persists
\* the access token, issues the current-user request carrying that token,
\* stores the user and only then navigates to /dashboard.
LoginOrder == <<"exchange", "persist", "me", "setUser", "navigate">>

LoginStepsInOrder ==
    /\ [](\A i \in Ops :
            /\ IsPrefix(ops[i].trace, LoginOrder)
            /\ (ops[i].pc = "done" => ops[i].trace = LoginOrder)
            /\ \A r \in sent :
                 (r.by = <<"op", i>> /\ r.url = "/auth/me") =>
                    /\ ops[i].access \in Tokens
                    /\ r.stored = ops[i].access
                    /\ r.auth = Bearer(ops[i].access))
    /\ [][\A i \in Ops :
            (ops[i].pc # "done" /\ ops'[i].pc = "done") =>
               user' \in Users /\ nav' = "/dashboard"]_vars

LoginAndRegisterDone ==
    \E i, j \in Ops :
        /\ ops[i].kind = "login" /\ ops[i].pc = "done"
        /\ ops[j].kind = "register" /\ ops[j].pc = "done"
        /\ user \in Users /\ nav = "/dashboard"

\* C9: loading is true initially, becomes false once the start-up outcome
\* is determined, and is never set back to true.
LoadingFallsOnce ==
    /\ [](loading <=> bootPc \in {"start", "fetching"})
    /\ [][~loading => ~loading']_vars

LoadingStaysFalseAfterLogin ==
    ~loading /\ \E i \in Ops : ops[i].pc = "done"

(***************************************************************************)
(* Properties of the streaming chat reader and of the API client           *)
(***************************************************************************)
\* the onChunk invocations made when the whole body arrives as one chunk
OneChunkCalls(b) == ChunkCalls(Decode(b))

\* C1: however the body is cut into chunks, onChunk is invoked with the same
\* ordered sequence of texts as when the body arrives as one chunk.
ChunkingIsInvisible ==
    chatPc = "done" => calls = OneChunkCalls(body)

\* C3: a multi-byte character split across two chunks is decoded as it is
\* when it arrives inside one chunk: the decoded text, and with it the texts
\* passed to onChunk, do not depend on where the chunks are cut.
SplitCharacterDecodes ==
    chatPc = "done" => decoded = Decode(body)

\* the texts of the lines of the whole stream that are data lines other than
\* the sentinel and parse as JSON carrying a text field
RECURSIVE DataLineTexts(_)
DataLineTexts(lines) ==
    IF lines = <<>> THEN <<>>
    ELSE LET line == Head(lines)
             data == JSONParse(Slice(line, 6))
         IN (IF /\ StartsWith(line, DataPrefix)
                /\ line # DoneLine
                /\ data.ok /\ data.hasText
               THEN <<data.text>> ELSE <<>>) \o DataLineTexts(Tail(lines))

\* C4: onChunk is invoked exactly once, in order, for every data line of the
\* stream that is not the sentinel and carries a text field, and for no
\* other line.
OneCallPerDataLine ==
    chatPc = "done" => calls = DataLineTexts(Split(Decode(body)))

\* C5: a non-2xx response surfaces as a rejected call, for the axios-based
\* functions and for chatStream, whose send then ends in the failure branch.
NonOkIsRejected ==
    /\ (apiResult.result # "none" /\ ~Is2xx(apiResult.status))
          => apiResult.result = "rejected"
    /\ (branch # "none" /\ ~Is2xx(status)) => branch = "failure"

\* C10: every request issued while a token is stored carries the header
\* Authorization: Bearer <token> with the token stored when it was issued.
StoredTokenIsAttached ==
    \A r \in sent : r.stored # None => r.auth = Bearer(r.stored)

AxiosAndFetchSentWithToken ==
    \E r1, r2 \in sent :
        /\ r1.by = <<"chat", 0>> /\ r1.stored \in Tokens
        /\ r2.by = <<"api", 0>> /\ r2.stored \in Tokens
        /\ r1.auth = Bearer(token) /\ r2.auth = Bearer(token)

(***************************************************************************)
(* Properties of the query cache                                           *)
(***************************************************************************)
\* C11: every successful mutation invalidates every cached query whose data
\* depends on it: no cache entry holds data fetched before a successful
\* mutation changed it without being marked invalid, and no read hands
\* such data to a component
MutationsInvalidateDependents ==
    /\ \A q \in QueryKeys : cache[q].data = "premutation" => cache[q].invalid
    /\ lastRead # "premutation"

(***************************************************************************)
(* Properties of the zone previews                                         *)
(***************************************************************************)
Absent(v) == v = <<>>

UpperBounds(rows) == [k \in 1..Len(rows) |-> rows[k].upper]

NonDecreasing(seq) == \A k \in 1..(Len(seq) - 1) : seq[k] <= seq[k + 1]

\* r is n * pct / 100 rounded to the nearest integer, a tie going up
HalfUp(r, n, pct) == (100 * r - pct * n) \in (0 - 49)..50

\* C12: a zone set is withheld whenever a threshold it requires is absent
\* (heart rate: LTHR and max HR; power: FTP), is produced when the
\* thresholds it requires are present, and no bound is computed from a
\* threshold of zero
ZoneSetsWithheld ==
    /\ (Absent(thresholds.threshold_hr) \/ Absent(thresholds.max_hr))
          => ThresholdsHrRows(thresholds) = <<>>
    /\ Absent(thresholds.threshold_power)
          => ThresholdsPowerRows(thresholds) = <<>>
    /\ (Absent(userData.threshold_hr) \/ Absent(userData.max_hr))
          => ZonesHrRows(userData) = <<>>
    /\ Absent(userData.threshold_power) => ZonesPowerRows(userData) = <<>>
    /\ (~Absent(thresholds.threshold_hr) /\ ~Absent(thresholds.max_hr))
          => Len(ThresholdsHrRows(thresholds)) = 5
    /\ ~Absent(thresholds.threshold_power)
          => Len(ThresholdsPowerRows(thresholds)) = 5
    /\ (OrZero(userData.threshold_hr) > 0 /\ OrZero(userData.max_hr) > 0)
          => Len(ZonesHrRows(userData)) = 5
    /\ OrZero(userData.threshold_power) > 0
          => Len(ZonesPowerRows(userData)) = 5
    /\ ZonesHrRows(userData) # <<>> => OrZero(userData.threshold_hr) # 0
    /\ ZonesPowerRows(userData) # <<>> => OrZero(userData.threshold_power) # 0

\* the five heart-rate upper bounds for LTHR L and max HR M, and the five
\* power upper bounds for FTP P, as the claim states them
HrBoundsAre(ub, L, M) ==
    /\ Len(ub) = 5
    /\ HalfUp(ub[1], L, 50)
    /\ HalfUp(ub[2], L, 75)
    /\ ub[3] = L
    /\ HalfUp(ub[4], L, 110)
    /\ ub[5] = M

PowerBoundsAre(ub, P) ==
    /\ Len(ub) = 5
    /\ HalfUp(ub[1], P, 55)
    /\ HalfUp(ub[2], P, 75)
    /\ ub[3] = P
    /\ HalfUp(ub[4], P, 120)
    /\ HalfUp(ub[5], P, 150)

\* C14: for LTHR L > 0 and max HR M >= round(1.1 L) the heart-rate upper
\* bounds are round(0.5 L), round(0.75 L), L, round(1.1 L), M and do not
\* decrease; for FTP P > 0 the power upper bounds are round(0.55 P),
\* round(0.75 P), P, round(1.2 P), round(1.5 P) and do not decrease; in the
\* preview of ThresholdsTab and in the summary of ZonesTab
ZoneBoundsOrdered ==
    /\ (Truthy(thresholds.threshold_hr) /\ Truthy(thresholds.max_hr)) =>
          LET L == ParseInt(thresholds.threshold_hr)
              M == ParseInt(thresholds.max_hr)
              ub == UpperBounds(ThresholdsHrRows(thresholds))
          IN L > 0 =>
               /\ HrBoundsAre(ub, L, M)
               /\ NonDecreasing(SubSeq(ub, 1, 4))
               /\ M >= ub[4] => NonDecreasing(ub)
    /\ Truthy(thresholds.threshold_power) =>
          LET P == ParseInt(thresholds.threshold_power)
              ub == UpperBounds(ThresholdsPowerRows(thresholds))
          IN P > 0 => PowerBoundsAre(ub, P) /\ NonDecreasing(ub)
    /\ LET L == OrZero(userData.threshold_hr)
           M == OrZero(userData.max_hr)
           ub == UpperBounds(ZonesHrRows(userData))
       IN L > 0 =>
            /\ HrBoundsAre(ub, L, M)
            /\ NonDecreasing(SubSeq(ub, 1, 4))
            /\ M >= ub[4] => NonDecreasing(ub)
    /\ LET P == OrZero(userData.threshold_power)
           ub == UpperBounds(ZonesPowerRows(userData))
       IN (P > 0 /\ ub # <<>>) => PowerBoundsAre(ub, P) /\ NonDecreasing(ub)

\* LTHR 180, max HR 200 and FTP 250 are typed in and the preview shows
\* their bounds
ZoneBoundsScenario ==
    /\ UpperBounds(ThresholdsHrRows(thresholds)) = <<90, 135, 180, 198, 200>>
    /\ UpperBounds(ThresholdsPowerRows(thresholds))
          = <<138, 188, 250, 300, 375>>

Contiguous(rows) ==
    \A k \in 1..Len(rows) :
       /\ rows[k].zone = k
       /\ rows[k].lower = IF k = 1 THEN 0 ELSE rows[k - 1].upper + 1

\* C15: in every zone table the previews produce, zone 1 starts at 0 and
\* every later zone starts one above the upper bound of the zone before it
ZonesAreContiguous ==
    /\ Contiguous(ThresholdsHrRows(thresholds))
    /\ Contiguous(ThresholdsPowerRows(thresholds))
    /\ Contiguous(ZonesHrRows(userData))
    /\ Contiguous(ZonesPowerRows(userData))

\* all four tables are shown with their five rows
AllZoneTablesShown ==
    /\ Len(ThresholdsHrRows(thresholds)) = 5
    /\ Len(ThresholdsPowerRows(thresholds)) = 5
    /\ Len(ZonesHrRows(userData)) = 5
    /\ Len(ZonesPowerRows(userData)) = 5

(***************************************************************************)
(* Properties of the training-status classifier                            *)
(***************************************************************************)
BandTexts ==
    {"Very Fatigued", "Training Hard", "Neutral", "Fresh", "Very Fresh"}

\* the band named `text` contains the TSB value h / 2
InBand(text, h) ==
    CASE text = "Very Fatigued" -> h < 2 * (0 - 30)
      [] text = "Training Hard" -> 2 * (0 - 30) <= h /\ h < 2 * (0 - 10)
      [] text = "Neutral" -> 2 * (0 - 10) <= h /\ h < 2 * 5
      [] text = "Fresh" -> 2 * 5 <= h /\ h < 2 * 15
      [] text = "Very Fresh" -> 2 * 15 <= h
      [] OTHER -> FALSE

\* C13: formStatus is total and its five bands neither leave a gap nor
\* overlap: every TSB value lies in exactly one band, and formStatus names
\* that band; a boundary value belongs to the higher band
FormStatusClassifies ==
    snapshot # <<>> =>
       /\ Cardinality({t \in BandTexts : InBand(t, snapshot[1])}) = 1
       /\ InBand(DashboardStatus(snapshot).text, snapshot[1])

\* the snapshot reports the boundary value TSB = -10 and the dashboard
\* shows the higher band
BoundaryIsNeutral ==
    /\ snapshot = <<2 * (0 - 10)>>
    /\ DashboardStatus(snapshot).text = "Neutral"

(***************************************************************************)
(* Properties of the upload page                                           *)
(***************************************************************************)
\* the name ends in ".fit", in any mix of upper and lower case
HasFitExtension(name) ==
    /\ Len(name) >= 4
    /\ name[Len(name) - 3] = "."
    /\ name[Len(name) - 2] \in {"f", "F"}
    /\ name[Len(name) - 1] \in {"i", "I"}
    /\ name[Len(name)] \in {"t", "T"}

UploadRequests == {r \in sent : r.url = "/activities/upload"}

\* C17: a file whose name does not end in .fit never reaches the API
\* client: handleFile issues no request for it and sets the error result;
\* for a file whose name ends in .fit handleFile clears the result and
\* issues exactly one upload request
OnlyFitFilesAreUploaded ==
    /\ [](/\ \A i \in 1..Len(uploadLog) : HasFitExtension(uploadLog[i])
          /\ Cardinality(UploadRequests) = Len(uploadLog))
    /\ [][\A file \in FileNames :
            HandleFile(file) =>
               IF HasFitExtension(file)
                 THEN /\ uploadResult' = NoResult
                      /\ uploadLog' = Append(uploadLog, file)
                      /\ Cardinality(UploadRequests')
                            = Cardinality(UploadRequests) + 1
                 ELSE /\ uploadResult'
                            = UploadError("Only .FIT files are supported.")
                      /\ UploadRequests' = UploadRequests
                      /\ uploadLog' = uploadLog]_vars

\* a file named a.FIT was uploaded, and a file of another kind was then
\* refused
FitUploadedOtherRefused ==
    /\ Len(uploadLog) = 1
    /\ uploadLog[1] = <<"a", ".", "F", "I", "T">>
    /\ Cardinality(UploadRequests) = 1
    /\ uploadResult = UploadError("Only .FIT files are supported.")

(***************************************************************************)
(* Properties of a failed send                                             *)
(***************************************************************************)
\* C16: whenever chatStream rejects during a send, before any chunk or
\* after some text was appended, the content of the last message, the
\* assistant placeholder, becomes the apology and nothing else, and
\* isLoading returns to false
FailureShowsApology ==
    /\ [](branch = "failure" =>
             /\ messages[Len(messages)]
                   = [role |-> "assistant", content |-> Apology]
             /\ ~isLoading)
    /\ [][(branch' = "failure" /\ branch # "failure") =>
             /\ isLoading
             /\ messages' = [messages EXCEPT ![Len(messages)].content = Apology]
             /\ ~isLoading']_vars

\* a send failed after onChunk had appended text to the placeholder
FailedAfterPartialText ==
    /\ branch = "failure"
    /\ calls # <<>>
    /\ messages[Len(messages)].content = Apology
    /\ ~isLoading

(***************************************************************************)
(* Properties of the line loop of the streaming chat reader                *)
(*                                                                         *)
(* A line is what the reader takes for one: an element of                  *)
(* chunk.split('\n'), for the chunk of one read.                           *)
(***************************************************************************)
\* during a step that reads a chunk: the decoded text of the bytes read,
\* and the onChunk invocations of the step
ChunkRead == Decode(SubSeq(body, pos + 1, pos'))

NewCalls == SubSeq(calls', Len(calls) + 1, Len(calls'))

NotSentinel(line) == line # DoneLine

NonEmpty(text) == text # <<>>

\* the non-empty texts of the lines that are data lines other than the
\* sentinel and parse as JSON carrying a text
WellFormedTexts(lines) == SelectSeq(DataLineTexts(lines), NonEmpty)

\* some line read so far is the sentinel
SentinelSeen == \E i \in 1..Len(Split(decoded)) : Split(decoded)[i] = DoneLine

\* C18: a line equal to `data: [DONE]` never causes an invocation of
\* onChunk: the invocations made for a chunk are those made for its lines
\* other than the sentinel, wherever the sentinel stands and however the
\* stream is cut into chunks
SentinelIsSilent ==
    [][pos' > pos =>
          \A chunk \in {ChunkRead} : \A lines \in {Split(chunk)} :
             /\ IsPrefix(calls, calls')
             /\ NewCalls = LinesCalls(SelectSeq(lines, NotSentinel))]_vars

\* a stream that ends with the sentinel was read to its end, and onChunk
\* was invoked for its text line only
SentinelReadSilently ==
    /\ chatPc = "done"
    /\ body = TextLine(<<"a">>) \o <<"\n">> \o DoneLine \o <<"\n">>
    /\ calls = << <<"a">> >>

IsSuffix(after, new) ==
    /\ Len(after) <= Len(new)
    /\ after = SubSeq(new, Len(new) - Len(after) + 1, Len(new))

\* C20: chatStream reads until the stream itself signals completion: it
\* settles only in a step where the reader reports done, with every byte of
\* the body delivered; the sentinel does not stop the reading; and the
\* lines that follow the sentinel, in its chunk and in later chunks, are
\* processed like any other
ReadsUntilStreamEnds ==
    /\ [](chatPc = "done" => pos = Len(body))
    /\ []((chatPc = "reading" /\ pos < Len(body) /\ SentinelSeen)
             => ENABLED (NextStream /\ pos' > pos))
    /\ [][chatPc' # chatPc =>
             /\ chatPc = "reading" /\ chatPc' = "done"
             /\ pos = Len(body)
             /\ calls' = calls]_vars
    /\ [][pos' > pos =>
             \A chunk \in {ChunkRead} : \A lines \in {Split(chunk)} :
             \A new \in {NewCalls} :
                /\ SentinelSeen => new = WellFormedTexts(lines)
                /\ \A i \in 1..Len(lines) :
                      lines[i] = DoneLine =>
                         IsSuffix(WellFormedTexts(
                                     SubSeq(lines, i + 1, Len(lines))), new)]_vars

\* a text line that follows the sentinel was read and delivered before the
\* call settled
TextAfterSentinelDelivered ==
    /\ chatPc = "done"
    /\ pos = Len(body)
    /\ body = DoneLine \o <<"\n">> \o TextLine(<<"a">>) \o <<"\n">>
    /\ calls = << <<"a">> >>

(***************************************************************************)
(* Properties of the session outside login, register and logout            *)
(***************************************************************************)
\* C21: the stored token and the in-memory user are written only by login,
\* register, logout and the start-up effect: every step of the other client
\* operations (an axios call and its settling, the chat page and its
\* streaming call, building the FIT download URL) leaves both unchanged.
OnlyAuthWritesSession == [][token' = token /\ user' = user]_vars

\* a signed-in session has settled an axios call, finished a streamed reply
\* and built a download URL
ClientOperationsDone ==
    /\ token \in Tokens
    /\ user \in Users
    /\ apiResult.result = "rejected"
    /\ branch = "success"
    /\ calls # <<>>
    /\ fitUrl # NoUrl

\* C30: with no token stored, no request carries an Authorization header
\* and no URL built by the client carries a token.
NoTokenNoCredentials ==
    token = None =>
        /\ \A r \in sent : r.auth = NoHeader
        /\ fitUrl # NoUrl => fitUrl[4] \notin Tokens

\* the token in storage when login/register call i began: the value the
\* interceptor read for the credential exchange request
ExchangeRequest(i) ==
    CHOOSE r \in sent : r.by = <<"op", i>> /\ r.n = 0

Effects(i) == {ops[i].trace[k] : k \in 1..Len(ops[i].trace)}

\* C23: once the saved coach settings have been fetched, the local form
\* equals them in every field until the user edits a field.
FormEqualsSavedSettings ==
    (savedSettings # NoData /\ ~edited) => settings = savedSettings

\* C24: after Dismiss or Cancel the suggestions stay null until the user
\* starts a new analyze, generate or refine request; a request that was
\* pending at the dismissal does not bring suggestions back.
DismissedStaysDismissed == dismissed => suggestions = NoSuggestions

\* a click was answered, and the answer was "cancel"
Declined == Len(answers') > Len(answers) /\ ~answers'[Len(answers')]

\* C25: on one mounted activity page at most one delete request is
\* unsettled whatever the clicks; a declined confirmation issues no request
\* and changes no state of the page; a failed delete resets isDeleting and
\* does not navigate.
OneDeleteAtATime ==
    /\ [](pendingDeletes <= 1)
    /\ [][Declined => UNCHANGED <<isDeleting, shownDeleting, pendingDeletes,
                                  deleteStatus, redirect, sent, nav>>]_vars
    /\ [][(deleteStatus' = "error" /\ pendingDeletes' < pendingDeletes)
            => (~isDeleting' /\ redirect' = "none" /\ nav' = nav)]_vars
    /\ [](redirect # "none" => deleteStatus = "success")

\* a delete failed, the page rendered, a click was declined, and a second
\* delete is pending
SecondDeleteAfterFailure ==
    /\ deleteStatus = "error"
    /\ pendingDeletes = 1
    /\ answers = <<TRUE, FALSE, TRUE>>

\* C26: while an upload is pending no second upload request is issued,
\* whether the file comes from the file input or from the drop zone.
OneUploadAtATime == Cardinality(inflight) <= 1

Last(msgs) == msgs[Len(msgs)]

\* C28: a send appends exactly two messages, the user's trimmed text and an
\* empty assistant placeholder; every other step leaves all messages but
\* the last as they are; when the send has succeeded the content of the
\* last message is the concatenation, in order, of the texts passed to
\* onChunk during that send.
ReplyIsConcatenation ==
    /\ [][sends' # sends =>
            messages' = messages
                \o <<[role |-> "user", content |-> Trim(input)],
                     [role |-> "assistant", content |-> <<>>]>>]_vars
    /\ [][sends' = sends =>
            /\ Len(messages') = Len(messages)
            /\ \A k \in 1..(Len(messages) - 1) : messages'[k] = messages[k]
            /\ Last(messages').role = Last(messages).role]_vars
    /\ []((sends > 0 /\ branch = "success")
            => Last(messages).content = Concat(calls))

\* a reply of two texts has been streamed to its end
TwoTextsConcatenated ==
    /\ branch = "success"
    /\ Len(calls) = 2
    /\ Len(messages) = 3
    /\ messages[2] = [role |-> "user", content |-> <<"h", "i">>]
    /\ messages[3] = [role |-> "assistant", content |-> <<"a", "a">>]

NonEmptyRanges(rows) == \A k \in 1..Len(rows) : rows[k].lower <= rows[k].upper

\* C29: for every positive threshold for which a zone table is displayed
\* (an LTHR above 0 together with a max HR, an FTP above 0) every displayed
\* zone is a non-empty range: its lower bound is at most its upper bound.
EveryZoneIsNonEmpty ==
    /\ (/\ Truthy(thresholds.threshold_hr) /\ Truthy(thresholds.max_hr)
        /\ ParseInt(thresholds.threshold_hr) > 0
        /\ ParseInt(thresholds.max_hr) > 0)
          => NonEmptyRanges(ThresholdsHrRows(thresholds))
    /\ (Truthy(thresholds.threshold_power)
           /\ ParseInt(thresholds.threshold_power) > 0)
          => NonEmptyRanges(ThresholdsPowerRows(thresholds))
    /\ (OrZero(userData.threshold_hr) > 0 /\ OrZero(userData.max_hr) > 0)
          => NonEmptyRanges(ZonesHrRows(userData))
    /\ OrZero(userData.threshold_power) > 0
          => NonEmptyRanges(ZonesPowerRows(userData))

\* C22: a login or register call that failed (the exchange was rejected, or
\* the current-user request after it was) has not navigated, has not set
\* the user, and has not replaced the token that was stored when it began.
FailedCallLeavesSession ==
    \A i \in Ops :
        ops[i].pc = "failed" =>
            /\ "navigate" \notin Effects(i)
            /\ "setUser" \notin Effects(i)
            /\ "persist" \in Effects(i)
                   => ops[i].access = ExchangeRequest(i).stored

====
